---- MODULE Spec2Model ----
(***************************************************************************)
(* LUCT Reporting System backend (src/server.js): the Express routes over  *)
(* the hosted tables users, classes and report, as a state machine.        *)
(*                                                                         *)
(* The tables live in the hosted database and outlive the server process,  *)
(* so a specification may start from any consistent table content.  A      *)
(* handler suspends at each await; a handler with a single database call   *)
(* is one atomic step (everything before and after the call is local to    *)
(* the request), a handler with two database calls is two steps with the   *)
(* request held in `inflight` in between.                                  *)
(***************************************************************************)
EXTENDS Integers, Sequences, FiniteSets, Bags, TLC

VARIABLES
    users,        \* table users: sequence of rows, user_id = position
    classes,      \* table classes: set of rows
    reports,      \* table report: set of rows
    nextClassId,  \* serial of classes.id
    nextReportId, \* serial of report.report_id
    tokens,       \* tokens handed out by POST /login
    now,          \* wall clock, in hours
    inflight,     \* requests suspended between two database calls
    last          \* the request answered last, with its response

vars == <<users, classes, reports, nextClassId, nextReportId, tokens, now, inflight, last>>

db == <<users, classes, reports, nextClassId, nextReportId>>

-----------------------------------------------------------------------------
(* Bounds of the model *)

MaxClasses == 1

MaxReports == 2

MaxInflight == 2

MaxClock == 24

MaxTokens == 2

(* Program constants *)

TokenTTL == 24

TickHours == TokenTTL \div 2

NullInt == -1

-----------------------------------------------------------------------------
(* JavaScript values *)

\* a body field that is not there
UNDEF == "undefined"

\* !x for a string-or-undefined x
Falsy(s) == s \in {UNDEF, ""}

\* a || b
OrElse(a, b) == IF Falsy(a) THEN b ELSE a

\* a JSON number / a JSON string / no field, for the fields that may be either
JNum(k) == [t |-> "num", n |-> k, s |-> ""]

JStr(str) == [t |-> "str", n |-> 0, s |-> str]

JUndef == [t |-> "undef", n |-> 0, s |-> ""]

\* !x for such a field: undefined, 0 and "" are falsy, "0" is not
JFalsy(j) ==
    \/ j.t = "undef"
    \/ j.t = "num" /\ j.n = 0
    \/ j.t = "str" /\ j.s = ""

\* the strings the requests of this model carry that parseInt reads as a number
DigitStrings ==
    [s \in {"0", "1", "2", "3", "30", "45"} |->
        CASE s = "0" -> 0 [] s = "1" -> 1 [] s = "2" -> 2 [] s = "3" -> 3
          [] s = "30" -> 30 [] s = "45" -> 45]

\* parseInt(x), and NaN as JSON.stringify sends it to the database: null
ParseInt(j) ==
    IF j.t = "num" THEN j.n
    ELSE IF j.t = "str" /\ j.s \in DOMAIN DigitStrings THEN DigitStrings[j.s]
    ELSE NullInt

\* role.toLowerCase() on the role strings of this model
ToLowerCase(s) ==
    CASE s = "Lecturer" -> "lecturer"
      [] s = "LECTURER" -> "lecturer"
      [] s = "PL" -> "pl"
      [] s = "Prl" -> "prl"
      [] s = "Student" -> "student"
      [] OTHER -> s

\* bcrypt.hash(password, 10) and bcrypt.compare(password, hash)
BcryptHash(pw) == <<"bcrypt", pw>>

BcryptCompare(pw, hash) == hash = BcryptHash(pw)

-----------------------------------------------------------------------------
(* Requests and responses *)

NoUser == [id |-> 0, role |-> "", name |-> "", email |-> ""]

NoToken == [id |-> 0, role |-> "", name |-> "", email |-> "", iat |-> 0, exp |-> 0, sig |-> "none"]

\* no Authorization header / a header with nothing after the scheme / scheme and token
NoHeader == [kind |-> "none", tok |-> NoToken]

SchemeOnly == [kind |-> "scheme", tok |-> NoToken]

Bearer(t) == [kind |-> "bearer", tok |-> t]

NoBody == [none |-> TRUE]

NoData == [none |-> TRUE]

Request(route, hdr, id, body) == [route |-> route, hdr |-> hdr, id |-> id, body |-> body]

\* res.status(status).json(...): the request, when the gate saw it and whom it let in,
\* the status and error answered, the database calls the request made, the payload.
Answer(req, at, user, status, error, calls, data) ==
    [route |-> req.route, hdr |-> req.hdr, id |-> req.id, body |-> req.body,
     at |-> at, user |-> user, status |-> status, error |-> error,
     calls |-> calls, data |-> data]

NoAnswer == Answer(Request("none", NoHeader, 0, NoBody), 0, NoUser, 0, "", 0, NoData)

-----------------------------------------------------------------------------
(* Token service and the authorization gate *)

\* jwt.sign({id, role, name, email}, secret, {expiresIn: "24h"}) at time t
SignToken(row, t) ==
    [id |-> row.user_id, role |-> row.role, name |-> row.name, email |-> row.email,
     iat |-> t, exp |-> t + TokenTTL, sig |-> "good"]

\* a verification that forgets the expiry
JwtVerifyNoExpiry(tok, t) == tok.sig = "good"

\* jwt.verify: the signature is the secret's and the token has not expired
JwtVerify(tok, t) == tok.sig = "good" /\ t < tok.exp

Decoded(tok) == [id |-> tok.id, role |-> tok.role, name |-> tok.name, email |-> tok.email]

authenticateToken(hdr, t) ==
    IF hdr.kind # "bearer"
    THEN [status |-> 401, error |-> "No token provided", user |-> NoUser]
    ELSE IF ~JwtVerify(hdr.tok, t)
    THEN [status |-> 403, error |-> "Invalid or expired token", user |-> NoUser]
    ELSE [status |-> 200, error |-> "", user |-> Decoded(hdr.tok)]

\* the gate's own answer, when it does not call next()
Rejected(req) ==
    LET g == authenticateToken(req.hdr, now)
    IN  Answer(req, now, NoUser, g.status, g.error, 0, NoData)

-----------------------------------------------------------------------------
(* Table users *)

UserRows == {users[i] : i \in 1..Len(users)}

\* .from("users").select().eq("email", email)
UsersByEmail(email) == {u \in UserRows : u.email = email}

\* .from("users").select().eq("user_id", id)
UsersById(id) == {u \in UserRows : u.user_id = id}

\* the users table lets no second row take an email
EmailFree(email) == UsersByEmail(email) = {}

\* the insert with the role stored as it was sent
NewUserRoleAsSent(reg) ==
    [user_id |-> Len(users) + 1, name |-> reg.name, email |-> reg.email,
     password |-> BcryptHash(reg.password), role |-> reg.role]

\* the row an insert into users returns
NewUser(reg) ==
    [user_id |-> Len(users) + 1, name |-> reg.name, email |-> reg.email,
     password |-> BcryptHash(reg.password), role |-> ToLowerCase(reg.role)]

allowedRoles == {"student", "lecturer", "prl", "pl"}

\* a request parked between two database calls
\* `creator` is existingClass.created_by, the one field of the fetched row the class
\* handlers look at
Parked(route, hdr, user, id, body, creator) ==
    [route |-> route, hdr |-> hdr, at |-> now, user |-> user, id |-> id, body |-> body,
     creator |-> creator]

InflightCount == BagCardinality(inflight)

Park(r) == inflight' = inflight (+) SetToBag({r})

Resume(r) == inflight' = inflight (-) SetToBag({r})

-----------------------------------------------------------------------------
(* POST /register *)

\* validation and the existence lookup (server.js 55-69)
RegisterLookup(reg) ==
    LET req == Request("POST /register", NoHeader, 0, reg)
        found == UsersByEmail(reg.email)
    IN  IF Falsy(reg.name) \/ Falsy(reg.email) \/ Falsy(reg.password) \/ Falsy(reg.role)
        THEN /\ last' = Answer(req, now, NoUser, 400, "All fields are required", 0, NoData)
             /\ UNCHANGED <<db, tokens, now, inflight>>
        ELSE IF ToLowerCase(reg.role) \notin allowedRoles
        THEN /\ last' = Answer(req, now, NoUser, 400, "Invalid role selected", 0, NoData)
             /\ UNCHANGED <<db, tokens, now, inflight>>
        ELSE IF Cardinality(found) = 1
        THEN /\ last' = Answer(req, now, NoUser, 400, "User already exists", 1,
                               [held |-> TRUE, created |-> FALSE])
             /\ UNCHANGED <<db, tokens, now, inflight>>
        ELSE /\ InflightCount < MaxInflight
             /\ Park(Parked("POST /register", NoHeader, NoUser, 0, reg, ""))
             /\ UNCHANGED <<db, tokens, now, last>>

\* the hash and the insert (server.js 71-80), and the catch (81-84)
RegisterInsert(r) ==
    LET req == Request(r.route, r.hdr, r.id, r.body)
        held == UsersByEmail(r.body.email) # {}
    IN  /\ r.route = "POST /register"
        /\ Resume(r)
        /\ IF EmailFree(r.body.email)
           THEN /\ users' = Append(users, NewUser(r.body))
                /\ last' = Answer(req, now, NoUser, 201, "", 2,
                                  [held |-> held, created |-> TRUE, user |-> NewUser(r.body)])
           ELSE /\ users' = users
                /\ last' = Answer(req, now, NoUser, 500, "Registration failed", 2,
                                  [held |-> held, created |-> FALSE])
        /\ UNCHANGED <<classes, reports, nextClassId, nextReportId, tokens, now>>

-----------------------------------------------------------------------------
(* POST /login *)

Login(cred) ==
    LET req == Request("POST /login", NoHeader, 0, cred)
        found == UsersByEmail(cred.email)
        row == CHOOSE u \in found : TRUE
    IN  IF Falsy(cred.email) \/ Falsy(cred.password)
        THEN /\ last' = Answer(req, now, NoUser, 400, "Email and password required", 0, NoData)
             /\ UNCHANGED <<db, tokens, now, inflight>>
        ELSE IF Cardinality(found) # 1
        THEN /\ last' = Answer(req, now, NoUser, 401, "Invalid credentials", 1, NoData)
             /\ UNCHANGED <<db, tokens, now, inflight>>
        ELSE IF ~BcryptCompare(cred.password, row.password)
        THEN /\ last' = Answer(req, now, NoUser, 401, "Invalid credentials", 1, NoData)
             /\ UNCHANGED <<db, tokens, now, inflight>>
        ELSE /\ SignToken(row, now) \in tokens \/ Cardinality(tokens) < MaxTokens
             /\ tokens' = tokens \cup {SignToken(row, now)}
             /\ last' = Answer(req, now, NoUser, 200, "", 1,
                               [token |-> SignToken(row, now),
                                user |-> [id |-> row.user_id, name |-> row.name,
                                          email |-> row.email, role |-> row.role]])
             /\ UNCHANGED <<db, now, inflight>>

-----------------------------------------------------------------------------
(* GET /profile *)

Profile(hdr) ==
    LET req == Request("GET /profile", hdr, 0, NoBody)
        g == authenticateToken(hdr, now)
        found == UsersById(g.user.id)
        row == CHOOSE u \in found : TRUE
    IN  /\ IF g.status # 200
           THEN last' = Rejected(req)
           ELSE IF Cardinality(found) # 1
           THEN last' = Answer(req, now, g.user, 500, "Profile retrieval failed", 1, NoData)
           ELSE last' = Answer(req, now, g.user, 200, "", 1,
                               [user_id |-> row.user_id, name |-> row.name,
                                email |-> row.email, role |-> row.role])
        /\ UNCHANGED <<db, tokens, now, inflight>>

\* time passes
Tick ==
    /\ now + TickHours <= MaxClock
    /\ now' = now + TickHours
    /\ UNCHANGED <<db, tokens, inflight, last>>

-----------------------------------------------------------------------------
(* Table classes *)

\* SQL NULL in a text column
NULL == "null"

\* .from("classes").select("*").eq("id", id)
ClassesById(id) == {c \in classes : c.id = id}

\* the same query against the table as the step leaves it
ClassesAfter(id) == {c \in classes' : c.id = id}

\* rows of a table as the array a query ordered by `key` descending returns
RECURSIVE Descending(_, _)
Descending(rows, key) ==
    IF rows = {} THEN <<>>
    ELSE LET top == CHOOSE r \in rows : \A q \in rows : q[key] <= r[key]
         IN  <<top>> \o Descending(rows \ {top}, key)

\* ilike("lecturer", `%${name}%`) on the names of this model
ILikeContains(text, name) ==
    \/ ToLowerCase(text) = ToLowerCase(name)
    \/ <<text, name>> \in {<<"Dr Thabo", "Thabo">>, <<"Thabo and Lerato", "Thabo">>,
                           <<"Thabo and Lerato", "Lerato">>}

\* the row POST /classes inserts (server.js 203-215)
NewClass(user, b) ==
    [id |-> nextClassId,
     class_name |-> b.class_name, course_name |-> b.course_name,
     course_code |-> b.course_code, lecturer |-> b.lecturer,
     schedule |-> OrElse(b.schedule, NULL), venue |-> OrElse(b.venue, NULL),
     capacity |-> IF JFalsy(b.capacity) THEN NullInt ELSE ParseInt(b.capacity),
     status |-> OrElse(b.status, "active"),
     created_by |-> user.name]

\* one column of .update(updates): the body's value when the body has the field
Patched(old, new) == IF new = UNDEF THEN old ELSE new

\* .update(updates) on one row, capacity already through parseInt (server.js 248-254)
ApplyUpdates(row, u) ==
    [id |-> row.id,
     class_name |-> Patched(row.class_name, u.class_name),
     course_name |-> Patched(row.course_name, u.course_name),
     course_code |-> Patched(row.course_code, u.course_code),
     lecturer |-> Patched(row.lecturer, u.lecturer),
     schedule |-> Patched(row.schedule, u.schedule),
     venue |-> Patched(row.venue, u.venue),
     capacity |-> IF u.capacity.t = "undef" THEN row.capacity ELSE ParseInt(u.capacity),
     status |-> Patched(row.status, u.status),
     created_by |-> Patched(row.created_by, u.created_by)]

\* what an answer of PUT or DELETE /classes/:id tells of the row: the created_by the
\* handler fetched ("" when it found no row), the rows of that id when the answering
\* step began and when it ended
Touched(creator, before, after) == [creator |-> creator, before |-> before, after |-> after]

\* the ownership check with every lecturer let through
NotOwnerLecturersPass(user, row) ==
    user.role \notin {"pl", "lecturer"} /\ row.created_by # user.name

\* req.user.role !== "pl" && existingClass.created_by !== req.user.name
NotOwner(user, row) == user.role # "pl" /\ row.created_by # user.name

-----------------------------------------------------------------------------
(* GET /classes, GET /classes/options, POST /classes *)

GetClasses(hdr) ==
    LET req == Request("GET /classes", hdr, 0, NoBody)
        g == authenticateToken(hdr, now)
    IN  /\ IF g.status # 200
           THEN last' = Rejected(req)
           ELSE last' = Answer(req, now, g.user, 200, "", 1, Descending(classes, "id"))
        /\ UNCHANGED <<db, tokens, now, inflight>>

ClassOption(c) ==
    [id |-> c.id, class_name |-> c.class_name, course_name |-> c.course_name,
     course_code |-> c.course_code, lecturer |-> c.lecturer]

\* the rows in the answer; their order by class_name is not modelled
GetClassOptions(hdr) ==
    LET req == Request("GET /classes/options", hdr, 0, NoBody)
        g == authenticateToken(hdr, now)
        rows == IF g.user.role = "lecturer"
                THEN {c \in classes : ILikeContains(c.lecturer, g.user.name)}
                ELSE classes
    IN  /\ IF g.status # 200
           THEN last' = Rejected(req)
           ELSE last' = Answer(req, now, g.user, 200, "", 1, {ClassOption(c) : c \in rows})
        /\ UNCHANGED <<db, tokens, now, inflight>>

PostClass(hdr, b) ==
    LET req == Request("POST /classes", hdr, 0, b)
        g == authenticateToken(hdr, now)
    IN  IF g.status # 200
        THEN /\ last' = Rejected(req)
             /\ UNCHANGED <<db, tokens, now, inflight>>
        ELSE IF Falsy(b.class_name) \/ Falsy(b.course_name) \/ Falsy(b.course_code)
                \/ Falsy(b.lecturer)
        THEN /\ last' = Answer(req, now, g.user, 400, "Required fields missing", 0, NoData)
             /\ UNCHANGED <<db, tokens, now, inflight>>
        ELSE IF g.user.role \notin {"lecturer", "pl", "prl"}
        THEN /\ last' = Answer(req, now, g.user, 403, "Not authorized to create class", 0, NoData)
             /\ UNCHANGED <<db, tokens, now, inflight>>
        ELSE /\ nextClassId <= MaxClasses
             /\ classes' = classes \cup {NewClass(g.user, b)}
             /\ nextClassId' = nextClassId + 1
             /\ last' = Answer(req, now, g.user, 201, "", 1, NewClass(g.user, b))
             /\ UNCHANGED <<users, reports, nextReportId, tokens, now, inflight>>

-----------------------------------------------------------------------------
(* PUT /classes/:id *)

\* the gate, the fetch of the row and the ownership check (server.js 230-245)
PutClassRead(hdr, id, updates) ==
    LET req == Request("PUT /classes/:id", hdr, id, updates)
        g == authenticateToken(hdr, now)
        found == ClassesById(id)
        existingClass == CHOOSE c \in found : TRUE
    IN  IF g.status # 200
        THEN /\ last' = Rejected(req)
             /\ UNCHANGED <<db, tokens, now, inflight>>
        ELSE IF Cardinality(found) # 1
        THEN /\ UNCHANGED <<db, tokens, now, inflight>>
             /\ last' = Answer(req, now, g.user, 404, "Class not found", 1,
                               Touched("", found, ClassesAfter(id)))
        ELSE IF NotOwner(g.user, existingClass)
        THEN /\ UNCHANGED <<db, tokens, now, inflight>>
             /\ last' = Answer(req, now, g.user, 403, "Not authorized to edit this class", 1,
                               Touched(existingClass.created_by, found, ClassesAfter(id)))
        ELSE /\ InflightCount < MaxInflight
             /\ Park(Parked("PUT /classes/:id", hdr, g.user, id, updates, existingClass.created_by))
             /\ UNCHANGED <<db, tokens, now, last>>

\* the update and the answer (server.js 248-258); data[0] is undefined when the
\* update matched no row
PutClassWrite(r) ==
    LET req == Request(r.route, r.hdr, r.id, r.body)
        hit == ClassesById(r.id)
    IN  /\ r.route = "PUT /classes/:id"
        /\ Resume(r)
        /\ classes' = (classes \ hit) \cup {ApplyUpdates(c, r.body) : c \in hit}
        /\ last' = Answer(req, r.at, r.user, 200, "", 2,
                          Touched(r.creator, hit, ClassesAfter(r.id)))
        /\ UNCHANGED <<users, reports, nextClassId, nextReportId, tokens, now>>

-----------------------------------------------------------------------------
(* DELETE /classes/:id *)

\* report.class_id references classes.id (the embedded select classes(...) rests on
\* that foreign key); what the key does on delete is the schema's choice
OnDelete == {"restrict", "cascade", "set null"}

ReportsOfClass(id) == {r \in reports : r.class_id = id}

\* the gate, the fetch of the row and the ownership check (server.js 268-282)
DeleteClassRead(hdr, id) ==
    LET req == Request("DELETE /classes/:id", hdr, id, NoBody)
        g == authenticateToken(hdr, now)
        found == ClassesById(id)
        existingClass == CHOOSE c \in found : TRUE
    IN  IF g.status # 200
        THEN /\ last' = Rejected(req)
             /\ UNCHANGED <<db, tokens, now, inflight>>
        ELSE IF Cardinality(found) # 1
        THEN /\ UNCHANGED <<db, tokens, now, inflight>>
             /\ last' = Answer(req, now, g.user, 404, "Class not found", 1,
                               Touched("", found, ClassesAfter(id)))
        ELSE IF NotOwner(g.user, existingClass)
        THEN /\ UNCHANGED <<db, tokens, now, inflight>>
             /\ last' = Answer(req, now, g.user, 403, "Not authorized to delete this class", 1,
                               Touched(existingClass.created_by, found, ClassesAfter(id)))
        ELSE /\ InflightCount < MaxInflight
             /\ Park(Parked("DELETE /classes/:id", hdr, g.user, id, NoBody, existingClass.created_by))
             /\ UNCHANGED <<db, tokens, now, last>>

\* the delete and the answer (server.js 284-291), and the catch (292-295)
DeleteClassWrite(r) ==
    LET req == Request(r.route, r.hdr, r.id, r.body)
        hit == ClassesById(r.id)
        refs == ReportsOfClass(r.id)
    IN  /\ r.route = "DELETE /classes/:id"
        /\ Resume(r)
        /\ \E rule \in IF refs = {} THEN {"restrict"} ELSE OnDelete :
            IF hit # {} /\ refs # {} /\ rule = "restrict"
            THEN /\ UNCHANGED <<classes, reports>>
                 /\ last' = Answer(req, r.at, r.user, 500, "Failed to delete class", 2,
                                   Touched(r.creator, hit, ClassesAfter(r.id)))
            ELSE /\ classes' = classes \ hit
                 /\ reports' = IF rule = "cascade" THEN reports \ refs
                               ELSE (reports \ refs)
                                    \cup {[x EXCEPT !.class_id = NullInt] : x \in refs}
                 /\ last' = Answer(req, r.at, r.user, 200, "", 2,
                                   Touched(r.creator, hit, ClassesAfter(r.id)))
        /\ UNCHANGED <<users, nextClassId, nextReportId, tokens, now>>

-----------------------------------------------------------------------------
(* Table report and the reshaping of its rows *)

\* .from("report").select(...).eq("report_id", id)
ReportsById(id) == {r \in reports : r.report_id = id}

NoJoin == [null |-> TRUE, class_name |-> UNDEF, course_name |-> UNDEF,
           course_code |-> UNDEF, lecturer |-> UNDEF, name |-> UNDEF]

\* classes(class_name, course_name, course_code, lecturer): the class the row's
\* class_id references, null when there is none
JoinClass(r, cls) ==
    IF \E c \in cls : c.id = r.class_id
    THEN LET c == CHOOSE c \in cls : c.id = r.class_id
         IN  [null |-> FALSE, class_name |-> c.class_name, course_name |-> c.course_name,
              course_code |-> c.course_code, lecturer |-> c.lecturer, name |-> UNDEF]
    ELSE NoJoin

\* users!report_submitted_by_fkey(name)
JoinUser(r) ==
    IF UsersById(r.submitted_by) # {}
    THEN LET u == CHOOSE u \in UsersById(r.submitted_by) : TRUE
         IN  [null |-> FALSE, class_name |-> UNDEF, course_name |-> UNDEF,
              course_code |-> UNDEF, lecturer |-> UNDEF, name |-> u.name]
    ELSE NoJoin

\* a row as select(`*, classes(...), users!...(name)`) returns it
Joined(r, cls) == [row |-> r, classes |-> JoinClass(r, cls), users |-> JoinUser(r)]

\* join?.field
Opt(join, f) == IF join.null THEN UNDEF ELSE join[f]

\* GET /reports: transformedData (server.js 325-346)
TransformListed(report) ==
    [id |-> report.row.report_id,
     faculty_name |-> "Faculty of ICT",
     class_name |-> OrElse(Opt(report.classes, "class_name"), "Unknown Class"),
     class_id |-> report.row.class_id,
     week_of_reporting |-> <<"Week ", report.row.week>>,
     date_of_lecture |-> report.row.date,
     course_name |-> OrElse(Opt(report.classes, "course_name"), "Unknown Course"),
     course_code |-> OrElse(Opt(report.classes, "course_code"), "N/A"),
     lecturer_name |-> OrElse(Opt(report.classes, "lecturer"),
                              OrElse(Opt(report.users, "name"), "Unknown Lecturer")),
     actual_students_present |-> report.row.actual_students,
     total_registered_students |-> 50,
     venue |-> "Room 101",
     scheduled_time |-> "10:00",
     topic_taught |-> report.row.topic,
     learning_outcomes |-> report.row.learning_outcomes,
     recommendations |-> report.row.recommendations,
     status |-> "submitted",
     feedback |-> "",
     created_by |-> report.row.submitted_by,
     created_at |-> report.row.created_at]

\* POST /reports: transformedReport (server.js 405-426)
TransformCreated(data) ==
    [id |-> data.row.report_id,
     faculty_name |-> "Faculty of ICT",
     class_name |-> OrElse(Opt(data.classes, "class_name"), "Unknown Class"),
     class_id |-> data.row.class_id,
     week_of_reporting |-> <<"Week ", data.row.week>>,
     date_of_lecture |-> data.row.date,
     course_name |-> OrElse(Opt(data.classes, "course_name"), "Unknown Course"),
     course_code |-> OrElse(Opt(data.classes, "course_code"), "N/A"),
     lecturer_name |-> OrElse(Opt(data.classes, "lecturer"),
                              OrElse(Opt(data.users, "name"), "Unknown Lecturer")),
     actual_students_present |-> data.row.actual_students,
     total_registered_students |-> 50,
     venue |-> "Room 101",
     scheduled_time |-> "10:00",
     topic_taught |-> data.row.topic,
     learning_outcomes |-> data.row.learning_outcomes,
     recommendations |-> data.row.recommendations,
     status |-> "submitted",
     feedback |-> "",
     created_by |-> data.row.submitted_by,
     created_at |-> data.row.created_at]

\* the reshaping of PUT /reports/:id with the feedback left out
TransformUpdatedDropsFeedback(data, feedback) == TransformCreated(data)

\* PUT /reports/:id: transformedReport (server.js 478-499)
TransformUpdated(data, feedback) ==
    [id |-> data.row.report_id,
     faculty_name |-> "Faculty of ICT",
     class_name |-> OrElse(Opt(data.classes, "class_name"), "Unknown Class"),
     class_id |-> data.row.class_id,
     week_of_reporting |-> <<"Week ", data.row.week>>,
     date_of_lecture |-> data.row.date,
     course_name |-> OrElse(Opt(data.classes, "course_name"), "Unknown Course"),
     course_code |-> OrElse(Opt(data.classes, "course_code"), "N/A"),
     lecturer_name |-> OrElse(Opt(data.classes, "lecturer"),
                              OrElse(Opt(data.users, "name"), "Unknown Lecturer")),
     actual_students_present |-> data.row.actual_students,
     total_registered_students |-> 50,
     venue |-> "Room 101",
     scheduled_time |-> "10:00",
     topic_taught |-> data.row.topic,
     learning_outcomes |-> data.row.learning_outcomes,
     recommendations |-> data.row.recommendations,
     status |-> "submitted",
     feedback |-> OrElse(feedback, ""),
     created_by |-> data.row.submitted_by,
     created_at |-> data.row.created_at]

\* the reshaping of GET /reports/:id without the fallback for a missing class name
TransformFetchedNoFallback(data) ==
    [TransformCreated(data) EXCEPT !.class_name = Opt(data.classes, "class_name")]

\* GET /reports/:id: transformedReport (server.js 531-552)
TransformFetched(data) ==
    [id |-> data.row.report_id,
     faculty_name |-> "Faculty of ICT",
     class_name |-> OrElse(Opt(data.classes, "class_name"), "Unknown Class"),
     class_id |-> data.row.class_id,
     week_of_reporting |-> <<"Week ", data.row.week>>,
     date_of_lecture |-> data.row.date,
     course_name |-> OrElse(Opt(data.classes, "course_name"), "Unknown Course"),
     course_code |-> OrElse(Opt(data.classes, "course_code"), "N/A"),
     lecturer_name |-> OrElse(Opt(data.classes, "lecturer"),
                              OrElse(Opt(data.users, "name"), "Unknown Lecturer")),
     actual_students_present |-> data.row.actual_students,
     total_registered_students |-> 50,
     venue |-> "Room 101",
     scheduled_time |-> "10:00",
     topic_taught |-> data.row.topic,
     learning_outcomes |-> data.row.learning_outcomes,
     recommendations |-> data.row.recommendations,
     status |-> "submitted",
     feedback |-> "",
     created_by |-> data.row.submitted_by,
     created_at |-> data.row.created_at]

-----------------------------------------------------------------------------
(* GET /reports, POST /reports, PUT /reports/:id, GET /reports/:id *)

\* the listing without the lecturer's filter
VisibleReportsUnfiltered(user) == reports

\* if (req.user.role === "lecturer") query = query.eq("submitted_by", req.user.id)
VisibleReports(user) ==
    IF user.role = "lecturer"
    THEN {r \in reports : r.submitted_by = user.id}
    ELSE reports

GetReports(hdr) ==
    LET req == Request("GET /reports", hdr, 0, NoBody)
        g == authenticateToken(hdr, now)
        rows == VisibleReports(g.user)
        data == Descending(rows, "report_id")
    IN  /\ IF g.status # 200
           THEN last' = Rejected(req)
           ELSE last' = Answer(req, now, g.user, 200, "", 1,
                               [i \in 1..Len(data) |-> TransformListed(Joined(data[i], classes))])
        /\ UNCHANGED <<db, tokens, now, inflight>>

\* the row POST /reports inserts (server.js 378-387)
NewReport(user, b) ==
    [report_id |-> nextReportId,
     class_id |-> ParseInt(b.class_id),
     week |-> ParseInt(b.week),
     date |-> b.date,
     topic |-> b.topic,
     learning_outcomes |-> OrElse(b.learning_outcomes, NULL),
     recommendations |-> OrElse(b.recommendations, NULL),
     actual_students |-> ParseInt(b.actual_students),
     submitted_by |-> user.id,
     created_at |-> now]

\* whether the report table takes the row: class_id references a class, or is null
\* where the column allows null; submitted_by references a user
Insertable(row, nullable) ==
    /\ \/ ClassesById(row.class_id) # {}
       \/ row.class_id = NullInt /\ nullable
    /\ UsersById(row.submitted_by) # {}

PostReport(hdr, b) ==
    LET req == Request("POST /reports", hdr, 0, b)
        g == authenticateToken(hdr, now)
        row == NewReport(g.user, b)
    IN  IF g.status # 200
        THEN /\ last' = Rejected(req)
             /\ UNCHANGED <<db, tokens, now, inflight>>
        ELSE IF JFalsy(b.class_id) \/ JFalsy(b.week) \/ Falsy(b.date) \/ Falsy(b.topic)
                \/ JFalsy(b.actual_students)
        THEN /\ UNCHANGED <<db, tokens, now, inflight>>
             /\ last' = Answer(req, now, g.user, 400,
                               "Class, week, date, topic, and actual students are required", 0,
                               [before |-> reports, after |-> reports'])
        ELSE \E nullable \in BOOLEAN :
             IF ~Insertable(row, nullable)
             THEN /\ UNCHANGED <<db, tokens, now, inflight>>
                  /\ last' = Answer(req, now, g.user, 500, "Failed to create report", 1,
                                    [before |-> reports, after |-> reports'])
             ELSE /\ nextReportId <= MaxReports
                  /\ reports' = reports \cup {row}
                  /\ nextReportId' = nextReportId + 1
                  /\ last' = Answer(req, now, g.user, 201, "", 1,
                                    [before |-> reports, after |-> reports',
                                     report |-> TransformCreated(Joined(row, classes))])
                  /\ UNCHANGED <<users, classes, nextClassId, tokens, now, inflight>>

\* .single() gives an error unless exactly one row matches, and the handler throws it
\* before it looks at data (server.js 474-475)
PutReport(hdr, id, feedback) ==
    LET req == Request("PUT /reports/:id", hdr, id, [feedback |-> feedback])
        g == authenticateToken(hdr, now)
        found == ReportsById(id)
        data == Joined(CHOOSE r \in found : TRUE, classes)
    IN  /\ UNCHANGED <<db, tokens, now, inflight>>
        /\ IF g.status # 200
           THEN last' = Rejected(req)
           ELSE IF g.user.role # "prl"
           THEN last' = Answer(req, now, g.user, 403, "Not authorized to update reports", 0,
                               [before |-> reports, after |-> reports'])
           ELSE IF Cardinality(found) # 1
           THEN last' = Answer(req, now, g.user, 500, "Failed to update report", 1,
                               [before |-> reports, after |-> reports'])
           ELSE last' = Answer(req, now, g.user, 200, "", 1,
                               [before |-> reports, after |-> reports',
                                report |-> TransformUpdated(data, feedback)])

GetReport(hdr, id) ==
    LET req == Request("GET /reports/:id", hdr, id, NoBody)
        g == authenticateToken(hdr, now)
        found == ReportsById(id)
        data == Joined(CHOOSE r \in found : TRUE, classes)
    IN  /\ UNCHANGED <<db, tokens, now, inflight>>
        /\ IF g.status # 200
           THEN last' = Rejected(req)
           ELSE IF Cardinality(found) # 1
           THEN last' = Answer(req, now, g.user, 500, "Failed to fetch report", 1, NoData)
           ELSE IF g.user.role = "lecturer" /\ data.row.submitted_by # g.user.id
           THEN last' = Answer(req, now, g.user, 403, "Not authorized to view this report", 1,
                               NoData)
           ELSE last' = Answer(req, now, g.user, 200, "", 1,
                               [report |-> TransformFetched(data)])

-----------------------------------------------------------------------------
(* The requests the model sends *)

RegBodies ==
    {[name |-> "Thabo", email |-> "thabo@luct.ac.ls", password |-> "pw-thabo", role |-> "Lecturer"],
     [name |-> "Thabo M", email |-> "thabo@luct.ac.ls", password |-> "pw-other", role |-> "student"],
     [name |-> "Mpho", email |-> "mpho@luct.ac.ls", password |-> "pw-mpho", role |-> "PL"],
     [name |-> "Neo", email |-> "neo@luct.ac.ls", password |-> "pw-neo", role |-> "admin"],
     [name |-> "Neo", email |-> "neo@luct.ac.ls", password |-> UNDEF, role |-> "student"]}

Credentials ==
    {[email |-> "thabo@luct.ac.ls", password |-> "pw-thabo"],
     [email |-> "thabo@luct.ac.ls", password |-> "pw-other"],
     [email |-> "mpho@luct.ac.ls", password |-> "pw-mpho"],
     [email |-> "neo@luct.ac.ls", password |-> "pw-neo"],
     [email |-> "mpho@luct.ac.ls", password |-> UNDEF]}

\* the users table after four registrations
SeedUsers ==
    <<[user_id |-> 1, name |-> "Thabo", email |-> "thabo@luct.ac.ls",
       password |-> BcryptHash("pw-thabo"), role |-> "lecturer"],
      [user_id |-> 2, name |-> "Lerato", email |-> "lerato@luct.ac.ls",
       password |-> BcryptHash("pw-lerato"), role |-> "lecturer"],
      [user_id |-> 3, name |-> "Palesa", email |-> "palesa@luct.ac.ls",
       password |-> BcryptHash("pw-palesa"), role |-> "prl"],
      [user_id |-> 4, name |-> "Mpho", email |-> "mpho@luct.ac.ls",
       password |-> BcryptHash("pw-mpho"), role |-> "pl"]>>

\* the tokens of their logins at time 0
SeedTokens == {SignToken(SeedUsers[i], 0) : i \in 1..Len(SeedUsers)}

\* a token signed with another secret, claiming to be the program leader
ForgedTokens ==
    {[id |-> 4, role |-> "pl", name |-> "Mpho", email |-> "mpho@luct.ac.ls",
      iat |-> 0, exp |-> 1000, sig |-> "forged"]}

\* the headers of a client that holds the tokens handed out so far
Headers == {Bearer(t) : t \in tokens}

\* and of one that also sends malformed headers and forged tokens
AnyHeaders == Headers \cup {NoHeader, SchemeOnly} \cup {Bearer(t) : t \in ForgedTokens}

ClassBody(name, lecturer, capacity) ==
    [class_name |-> name, course_name |-> "Web Development", course_code |-> "BIWA2110",
     lecturer |-> lecturer, schedule |-> UNDEF, venue |-> "Lab 2", capacity |-> capacity,
     status |-> UNDEF]

ClassBodies ==
    {ClassBody("BSCSM Y2", "Dr Thabo", JStr("30")),
     ClassBody(UNDEF, "Dr Thabo", JUndef)}

NoUpdates ==
    [class_name |-> UNDEF, course_name |-> UNDEF, course_code |-> UNDEF, lecturer |-> UNDEF,
     schedule |-> UNDEF, venue |-> UNDEF, capacity |-> JUndef, status |-> UNDEF,
     created_by |-> UNDEF]

ClassUpdates ==
    {[NoUpdates EXCEPT !.class_name = "BSCSM Y3", !.capacity = JStr("45")],
     [NoUpdates EXCEPT !.created_by = "Nobody"]}

ClassIds == 1..MaxClasses

ReportBody(class_id, week, topic, students) ==
    [class_id |-> class_id, week |-> week, date |-> "2025-03-03", topic |-> topic,
     learning_outcomes |-> UNDEF, recommendations |-> "More labs",
     actual_students |-> students]

ReportBodies ==
    {ReportBody(JNum(1), JNum(3), "Routing", JNum(28)),
     ReportBody(JStr("1"), JStr("0"), "Routing", JStr("28")),
     ReportBody(JNum(1), JNum(0), "Routing", JNum(28)),
     ReportBody(JNum(1), JNum(3), "Routing", JNum(0)),
     ReportBody(JNum(1), JNum(3), UNDEF, JNum(28)),
     ReportBody(JUndef, JNum(3), "Routing", JNum(28)),
     ReportBody(JStr("BSCSM"), JNum(3), "Routing", JNum(28))}

Feedbacks == {"Well done", UNDEF}

ReportIds == 1..(MaxReports + 1)

-----------------------------------------------------------------------------
(* The whole service, from empty tables *)

Init ==
    /\ users = <<>>
    /\ classes = {}
    /\ reports = {}
    /\ nextClassId = 1
    /\ nextReportId = 1
    /\ tokens = {}
    /\ now = 0
    /\ inflight = EmptyBag
    /\ last = NoAnswer

Suspended == BagToSet(inflight)

Next ==
    \/ \E reg \in RegBodies : RegisterLookup(reg)
    \/ \E r \in Suspended : RegisterInsert(r)
    \/ \E cred \in Credentials : Login(cred)
    \/ \E hdr \in AnyHeaders : Profile(hdr)
    \/ \E hdr \in AnyHeaders : GetClasses(hdr)
    \/ \E hdr \in AnyHeaders : GetClassOptions(hdr)
    \/ \E hdr \in AnyHeaders, b \in ClassBodies : PostClass(hdr, b)
    \/ \E hdr \in AnyHeaders, id \in ClassIds, u \in ClassUpdates : PutClassRead(hdr, id, u)
    \/ \E r \in Suspended : PutClassWrite(r)
    \/ \E hdr \in AnyHeaders, id \in ClassIds : DeleteClassRead(hdr, id)
    \/ \E r \in Suspended : DeleteClassWrite(r)
    \/ \E hdr \in AnyHeaders : GetReports(hdr)
    \/ \E hdr \in AnyHeaders, b \in ReportBodies : PostReport(hdr, b)
    \/ \E hdr \in AnyHeaders, id \in ReportIds, f \in Feedbacks : PutReport(hdr, id, f)
    \/ \E hdr \in AnyHeaders, id \in ReportIds : GetReport(hdr, id)
    \/ Tick

Spec == Init /\ [][Next]_vars

-----------------------------------------------------------------------------
(* Registration and login, from an empty users table *)

NextAuth ==
    \/ \E reg \in RegBodies : RegisterLookup(reg)
    \/ \E r \in Suspended : RegisterInsert(r)
    \/ \E cred \in Credentials : Login(cred)

SpecAuth == Init /\ [][NextAuth]_vars

-----------------------------------------------------------------------------
(* The class routes, for four registered users holding their tokens *)

InitClasses ==
    /\ users = SeedUsers
    /\ classes = {}
    /\ reports = {}
    /\ nextClassId = 1
    /\ nextReportId = 1
    /\ tokens = {SignToken(SeedUsers[i], 0) : i \in {1, 2, 4}}
    /\ now = 0
    /\ inflight = EmptyBag
    /\ last = NoAnswer

\* the lecturer who opens the classes
Creators == {Bearer(SignToken(SeedUsers[1], 0))}

NextClasses ==
    \/ \E hdr \in Creators, b \in ClassBodies : PostClass(hdr, b)
    \/ \E hdr \in Headers, id \in ClassIds, u \in ClassUpdates : PutClassRead(hdr, id, u)
    \/ \E r \in Suspended : PutClassWrite(r)
    \/ \E hdr \in Headers, id \in ClassIds : DeleteClassRead(hdr, id)
    \/ \E r \in Suspended : DeleteClassWrite(r)

SpecClasses == InitClasses /\ [][NextClasses]_vars

-----------------------------------------------------------------------------
(* The report routes, for the four users, over a table that may hold an old row *)

SeedClass ==
    [id |-> 1, class_name |-> "BSCSM Y2", course_name |-> "Web Development",
     course_code |-> "BIWA2110", lecturer |-> "Dr Thabo", schedule |-> NULL,
     venue |-> "Lab 2", capacity |-> 30, status |-> "active", created_by |-> "Thabo"]

\* a row whose class and submitter are both gone
OrphanReport ==
    [report_id |-> 1, class_id |-> NullInt, week |-> 1, date |-> "2024-09-02",
     topic |-> "Orientation", learning_outcomes |-> NULL, recommendations |-> NULL,
     actual_students |-> 12, submitted_by |-> NullInt, created_at |-> 0]

InitReports ==
    /\ users = SeedUsers
    /\ classes = {SeedClass}
    /\ reports \in {{}, {OrphanReport}}
    /\ nextClassId = 2
    /\ nextReportId = Cardinality(reports) + 1
    /\ tokens = {SignToken(SeedUsers[i], 0) : i \in {1, 2, 3}}
    /\ now = 0
    /\ inflight = EmptyBag
    /\ last = NoAnswer

NextReports ==
    \/ \E hdr \in Headers : GetReports(hdr)
    \/ \E hdr \in Headers, b \in ReportBodies : PostReport(hdr, b)
    \/ \E hdr \in Headers, id \in ReportIds, f \in Feedbacks : PutReport(hdr, id, f)
    \/ \E hdr \in Headers, id \in ReportIds : GetReport(hdr, id)

SpecReports == InitReports /\ [][NextReports]_vars

-----------------------------------------------------------------------------
(* The gate in front of every protected route, as time passes *)

InitGate ==
    /\ users = SeedUsers
    /\ classes = {SeedClass}
    /\ reports = {OrphanReport}
    /\ nextClassId = 2
    /\ nextReportId = 2
    /\ tokens = {}
    /\ now = 0
    /\ inflight = EmptyBag
    /\ last = NoAnswer

\* one lecturer logs in, now and again; every protected route is then called with
\* every header, with bodies and ids that leave the tables as they are
GateCredentials ==
    {[email |-> "lerato@luct.ac.ls", password |-> "pw-lerato"],
     [email |-> "lerato@luct.ac.ls", password |-> "pw-thabo"]}

GateClassBodies == {ClassBody(UNDEF, "Dr Thabo", JUndef)}

GateReportBodies == {ReportBody(JNum(1), JNum(3), UNDEF, JNum(28))}

NextGate ==
    \/ \E cred \in GateCredentials : Login(cred)
    \/ Tick
    \/ \E hdr \in AnyHeaders : Profile(hdr)
    \/ \E hdr \in AnyHeaders : GetClasses(hdr)
    \/ \E hdr \in AnyHeaders : GetClassOptions(hdr)
    \/ \E hdr \in AnyHeaders, b \in GateClassBodies : PostClass(hdr, b)
    \/ \E hdr \in AnyHeaders, u \in ClassUpdates : PutClassRead(hdr, SeedClass.id, u)
    \/ \E hdr \in AnyHeaders : DeleteClassRead(hdr, SeedClass.id)
    \/ \E hdr \in AnyHeaders : GetReports(hdr)
    \/ \E hdr \in AnyHeaders, b \in GateReportBodies : PostReport(hdr, b)
    \/ \E hdr \in AnyHeaders, f \in Feedbacks : PutReport(hdr, OrphanReport.report_id, f)
    \/ \E hdr \in AnyHeaders : GetReport(hdr, OrphanReport.report_id)

SpecGate == InitGate /\ [][NextGate]_vars

-----------------------------------------------------------------------------
(* Claims *)

ClassMutations == {"PUT /classes/:id", "DELETE /classes/:id"}

\* the answered request passed the gate
Authenticated == last.user # NoUser

\* C1: when PUT or DELETE /classes/:id finds the class and the caller is neither "pl"
\* nor the created_by of the row the handler fetched, the answer is 403 and the row is
\* the same after the request as before it.
C1_NonOwnerGets403 ==
    (/\ last.route \in ClassMutations
     /\ Authenticated
     /\ last.data.creator # ""
     /\ last.user.role # "pl"
     /\ last.data.creator # last.user.name)
    => /\ last.status = 403
       /\ last.data.before # {}
       /\ last.data.after = last.data.before

\* a lecturer who did not create the class was refused, and so was its creator once
\* created_by named somebody else
C1_Witness ==
    /\ last.route \in ClassMutations
    /\ last.status = 403
    /\ last.user.role = "lecturer"
    /\ last.data.creator \notin {"", last.user.name}
    /\ last.data.before # {}

\* C9: every stored class's created_by is the name of a stored user.
C9_CreatedByNamesUser ==
    \A c \in classes : \E u \in UserRows : u.name = c.created_by

\* C2: a lecturer's GET /reports returns exactly the reports whose submitted_by is the
\* lecturer's own id, and GET /reports/:id of somebody else's report answers 403 with no
\* report; a caller of any other role gets all reports.
C2_LecturerSeesOwnReports ==
    /\ (last.route = "GET /reports" /\ Authenticated)
       => /\ last.status = 200
          /\ LET got == {last.data[i].id : i \in DOMAIN last.data}
             IN  /\ Cardinality(got) = Len(last.data)
                 /\ IF last.user.role = "lecturer"
                    THEN /\ got = {r.report_id : r \in {x \in reports : x.submitted_by = last.user.id}}
                         /\ \A i \in DOMAIN last.data : last.data[i].created_by = last.user.id
                    ELSE got = {r.report_id : r \in reports}
    /\ (/\ last.route = "GET /reports/:id"
        /\ Authenticated
        /\ last.user.role = "lecturer"
        /\ \E r \in reports : r.report_id = last.id /\ r.submitted_by # last.user.id)
       => last.status = 403 /\ "report" \notin DOMAIN last.data

\* a lecturer listed the reports while the table held one of theirs and one of another
\* submitter
C2_Witness ==
    /\ last.route = "GET /reports"
    /\ last.user.role = "lecturer"
    /\ Len(last.data) = 1
    /\ \E r \in reports : r.submitted_by \notin {last.user.id, NullInt}

ProtectedRoutes ==
    {"GET /profile", "GET /classes", "GET /classes/options", "POST /classes",
     "PUT /classes/:id", "DELETE /classes/:id", "GET /reports", "POST /reports",
     "PUT /reports/:id", "GET /reports/:id"}

\* the header's token passes verification at the time the gate saw it: signed with
\* the secret and younger than 24 hours
Verifies(a) ==
    /\ a.hdr.kind = "bearer"
    /\ a.hdr.tok.sig = "good"
    /\ a.at < a.hdr.tok.iat + TokenTTL

GateAnswer ==
    last.route \in ProtectedRoutes =>
        /\ last.hdr.kind # "bearer"
           => last.status = 401 /\ last.calls = 0 /\ ~Authenticated
        /\ (last.hdr.kind = "bearer" /\ ~Verifies(last))
           => /\ last.status = 403
              /\ last.error = "Invalid or expired token"
              /\ last.calls = 0
              /\ ~Authenticated
        /\ Verifies(last)
           => last.user = [id |-> last.hdr.tok.id, role |-> last.hdr.tok.role,
                           name |-> last.hdr.tok.name, email |-> last.hdr.tok.email]

\* C3: on a protected route a request without a token is answered 401, one whose token
\* fails verification (forged or expired) 403, and neither touches the tables; the
\* handler runs only for a verified token, with the token's {id, role, name, email}.
C3_GateBeforeHandler ==
    /\ []GateAnswer
    /\ [][(last'.route \in ProtectedRoutes /\ last'.user = NoUser) => db' = db]_vars

\* a token that was handed out and has since expired was refused
C3_Witness ==
    /\ last.route \in ProtectedRoutes
    /\ last.hdr.kind = "bearer"
    /\ last.hdr.tok \in tokens
    /\ last.at >= last.hdr.tok.exp
    /\ last.status = 403

\* C4: a registration whose email a stored user already holds is answered 400 "User
\* already exists" and creates no row, also when two registrations interleave.
C4_DuplicateEmailIsConflict ==
    (last.route = "POST /register" /\ last.calls > 0 /\ last.data.held)
    => /\ last.status = 400
       /\ last.error = "User already exists"
       /\ ~last.data.created

\* the five fields POST /reports requires are all in the body
AllPresent(b) ==
    /\ b.class_id.t # "undef"
    /\ b.week.t # "undef"
    /\ b.date # UNDEF
    /\ b.topic # UNDEF
    /\ b.actual_students.t # "undef"

\* C5: POST /reports with one of class_id, week, date, topic, actual_students absent
\* is answered 400 and inserts nothing; with all five present, whatever their values,
\* it inserts exactly one row, submitted_by the caller.
C5_PresentFieldsInsertOneRow ==
    (last.route = "POST /reports" /\ Authenticated)
    => IF AllPresent(last.body)
       THEN /\ Cardinality(last.data.after \ last.data.before) = 1
            /\ \A r \in last.data.after \ last.data.before : r.submitted_by = last.user.id
       ELSE last.status = 400 /\ last.data.after = last.data.before

\* C6: for an id no report has, GET /reports/:id answers 404, and PUT /reports/:id by
\* a "prl" answers 404 "Report not found".
C6_MissingReportIs404 ==
    /\ (last.route = "GET /reports/:id" /\ Authenticated /\ ReportsById(last.id) = {})
       => last.status = 404
    /\ (last.route = "PUT /reports/:id" /\ Authenticated /\ last.user.role = "prl"
        /\ ReportsById(last.id) = {})
       => last.status = 404 /\ last.error = "Report not found"

\* C7: PUT /reports/:id leaves the report table as it was; a caller who is not "prl"
\* gets 403, a "prl" gets the report as GET /reports/:id reshapes it with the feedback
\* sent, and GET /reports and GET /reports/:id always give feedback "".
C7_FeedbackOnlyInResponse ==
    /\ (last.route = "PUT /reports/:id" /\ Authenticated)
       => /\ last.data.after = last.data.before
          /\ last.user.role # "prl" => last.status = 403
          /\ (last.user.role = "prl" /\ ReportsById(last.id) # {})
             => /\ last.status = 200
                /\ last.data.report.id = last.id
                /\ last.data.report.feedback =
                       (IF last.body.feedback \in {UNDEF, ""} THEN "" ELSE last.body.feedback)
                /\ \A r \in ReportsById(last.id) :
                       [last.data.report EXCEPT !.feedback = ""]
                           = TransformFetched(Joined(r, classes))
    /\ (last.route = "GET /reports" /\ last.status = 200)
       => \A i \in DOMAIN last.data : last.data[i].feedback = ""
    /\ (last.route = "GET /reports/:id" /\ last.status = 200)
       => last.data.report.feedback = ""

\* a "prl" sent feedback and got it back in the answer
C7_Witness ==
    /\ last.route = "PUT /reports/:id"
    /\ last.status = 200
    /\ last.user.role = "prl"
    /\ last.data.report.feedback = "Well done"
    /\ last.data.before # {}

\* the registrations that succeeded: each stored row, with the body that created it
Registered == {b \in RegBodies : \E u \in UserRows : u.name = b.name /\ u.email = b.email}

\* C8: after a registration succeeded, POST /login with its email and password
\* succeeds, and the token carries the stored user's id, name, email and the role in
\* lower case; a login with an unknown email or a wrong password gets 401 "Invalid
\* credentials" and no token.
C8_LoginAfterRegister ==
    last.route = "POST /login" =>
        /\ \A b \in Registered :
            (last.body.email = b.email /\ last.body.password = b.password)
            => /\ last.status = 200
               /\ \E u \in UserRows :
                    /\ u.email = b.email
                    /\ Decoded(last.data.token)
                         = [id |-> u.user_id, role |-> ToLowerCase(b.role),
                            name |-> b.name, email |-> b.email]
               /\ last.data.token.role \in allowedRoles
               /\ last.data.token.sig = "good"
               /\ last.data.token.exp = last.at + TokenTTL
        /\ (/\ last.body.email # UNDEF
            /\ last.body.password # UNDEF
            /\ ~\E b \in Registered :
                  last.body.email = b.email /\ last.body.password = b.password)
           => /\ last.status = 401
              /\ last.error = "Invalid credentials"
              /\ "token" \notin DOMAIN last.data

\* the lecturer registered as "Lecturer" logged in and the token says "lecturer"
C8_Witness ==
    /\ last.route = "POST /login"
    /\ last.status = 200
    /\ last.body.email = "thabo@luct.ac.ls"
    /\ last.data.token.role = "lecturer"
    /\ last.data.token.name \in {"Thabo", "Thabo M"}

ReportSchema ==
    {"id", "faculty_name", "class_name", "class_id", "week_of_reporting", "date_of_lecture",
     "course_name", "course_code", "lecturer_name", "actual_students_present",
     "total_registered_students", "venue", "scheduled_time", "topic_taught",
     "learning_outcomes", "recommendations", "status", "feedback", "created_by",
     "created_at"}

\* the reshaped reports in the last answer
Reshaped ==
    IF last.route = "GET /reports" /\ last.status = 200
    THEN {last.data[i] : i \in DOMAIN last.data}
    ELSE IF \/ last.route = "POST /reports" /\ last.status = 201
            \/ last.route \in {"PUT /reports/:id", "GET /reports/:id"} /\ last.status = 200
    THEN {last.data.report}
    ELSE {}

\* the report's class join is null
ClassJoinNull(o) == ClassesById(o.class_id) = {}

\* C10 as stated: every reshaped report has the full schema, and with a null class
\* join class_name, course_name, course_code and lecturer_name are "Unknown Class",
\* "Unknown Course", "N/A" and "Unknown Lecturer".
C10_FallbacksAsStated ==
    \A o \in Reshaped :
        /\ DOMAIN o = ReportSchema
        /\ ClassJoinNull(o)
           => /\ o.class_name = "Unknown Class"
              /\ o.course_name = "Unknown Course"
              /\ o.course_code = "N/A"
              /\ o.lecturer_name = "Unknown Lecturer"

\* C10, amended: every reshaped report of the four routes has the full schema, and
\* with a null class join class_name, course_name and course_code are "Unknown Class",
\* "Unknown Course" and "N/A", and lecturer_name is the submitter's name, "Unknown
\* Lecturer" only when the submitter join is null too.
C10_FallbacksWithSubmitter ==
    \A o \in Reshaped :
        /\ DOMAIN o = ReportSchema
        /\ ClassJoinNull(o)
           => /\ o.class_name = "Unknown Class"
              /\ o.course_name = "Unknown Course"
              /\ o.course_code = "N/A"
              /\ IF UsersById(o.created_by) = {}
                 THEN o.lecturer_name = "Unknown Lecturer"
                 ELSE \A u \in UsersById(o.created_by) : o.lecturer_name = u.name

\* GET /reports/:id reshaped a report without a class whose submitter is known
C10_Witness ==
    /\ last.route = "GET /reports/:id"
    /\ \E o \in Reshaped :
        /\ ClassJoinNull(o)
        /\ o.class_name = "Unknown Class"
        /\ UsersById(o.created_by) # {}
        /\ o.lecturer_name # "Unknown Lecturer"


-----------------------------------------------------------------------------
(* PUT and DELETE /classes/:id racing each other *)

\* the answered request is the second database call of a class mutation
ClassWriteAnswered == last.route \in ClassMutations /\ last.calls = 2

\* the write changed or removed a row only for a "pl" or for the caller the row named
\* as created_by when the write ran
C11_WriterOwnsRow ==
    (ClassWriteAnswered /\ last.data.after # last.data.before)
    => \/ last.user.role = "pl"
       \/ \A c \in last.data.before : c.created_by = last.user.name

\* a PUT answered with success found its row and left it in the table
C11_PutHitsRow ==
    (ClassWriteAnswered /\ last.route = "PUT /classes/:id" /\ last.status = 200)
    => last.data.before # {} /\ last.data.after # {}

\* C11: in every interleaving of PUT and DELETE /classes/:id, a class row is changed
\* or deleted only by a caller who at the moment of the write is "pl" or is named by
\* the row's current created_by, and a PUT answered with success has modified a class
\* that still exists.
C11_WriteChecksCurrentRow == C11_WriterOwnsRow /\ C11_PutHitsRow

====
